---- MODULE Spec2Model ----
(***************************************************************************)
(* A model of Library.py: a library of books that keeps one LibraryBook    *)
(* per (title, author), a list of the LibraryBooks in first-add order, an  *)
(* index from BookKey to LibraryBook, and LibraryBookIter, the iterator    *)
(* over the available copies.                                              *)
(*                                                                         *)
(* Python objects are modelled by a heap: a LibraryBook is a position of   *)
(* the sequence heap, and library_books and index hold such references, so *)
(* that "the same object" is a statement about references.                 *)
(***************************************************************************)
EXTENDS Integers, Sequences, FiniteSets

\* ---- bounds of the model ----
MaxTitle == 2
MaxAuthor == 2
MaxGenere == 2
MaxPages == 1
MaxBooks == 3
MaxCount == 2
MaxIters == 1
MaxQuietIters == 2

Titles == 1..MaxTitle
Authors == 1..MaxAuthor
Generes == 1..MaxGenere
Pages == 1..MaxPages

\* ---- Book, BookKey, LibraryBook ----
Book(title, author, genere, n_pages) ==
    [title |-> title, author |-> author, genere |-> genere, n_pages |-> n_pages]

Books == {Book(t, a, g, n) : t \in Titles, a \in Authors, g \in Generes, n \in Pages}

\* the value of book in a result that carries no book
NoBook == Book(0, 0, 0, 0)

BookKey(title, author) == <<title, author>>

\* from_book with the title in the place of the author
from_book_title_twice(book) == BookKey(book.title, book.title)

\* from_book that takes the genere into the key
from_book_with_genere(book) == <<book.title, book.author, book.genere>>

from_book(book) == BookKey(book.title, book.author)

Keys == {BookKey(t, a) : t \in Titles, a \in Authors}

LibraryBook(book, qty, available_qty) ==
    [book |-> book, qty |-> qty, available_qty |-> available_qty]

\* inc that forgets available_qty
inc_qty_only(lb) == [lb EXCEPT !.qty = @ + 1]

inc(lb) == [lb EXCEPT !.available_qty = @ + 1, !.qty = @ + 1]

\* ---- the state ----
VARIABLES
    heap,           \* the LibraryBook objects, in order of creation
    library_books,  \* Library.library_books: a list of references into heap
    index,          \* Library.index: BookKey -> reference into heap
    iters,          \* the LibraryBookIter objects the client holds
    call,           \* the last call: the method and its argument
    ret,            \* what the last call returned or raised
    prev,           \* heap as it was before the last call
    lent            \* per LibraryBook: successful checkouts minus returns

vars == <<heap, library_books, index, iters, call, ret, prev, lent>>

\* a call of a method with a book, with (title, author), or on the i-th iterator
Call(op, arg, it) == [op |-> op, arg |-> arg, it |-> it]

\* results of a call
RetNone == [kind |-> "None", ref |-> 0, book |-> NoBook]
RetBook(b) == [kind |-> "Book", ref |-> 0, book |-> b]
RetLibraryBook(r) == [kind |-> "LibraryBook", ref |-> r, book |-> NoBook]
RetLibraryBookIter(i) == [kind |-> "LibraryBookIter", ref |-> i, book |-> NoBook]
RetKeyError == [kind |-> "KeyError", ref |-> 0, book |-> NoBook]
RetStopIteration == [kind |-> "StopIteration", ref |-> 0, book |-> NoBook]

\* every iterator in flight has seen the library change
Touch(its) == [i \in DOMAIN its |-> [its[i] EXCEPT !.mutated = TRUE]]

Init ==
    /\ heap = << >>
    /\ library_books = << >>
    /\ index = << >>
    /\ iters = << >>
    /\ call = Call("__init__", NoBook, 0)
    /\ ret = RetNone
    /\ prev = << >>
    /\ lent = << >>

\* ---- Library ----
\* add_book that keeps the book of the last add in the record
add_book_replace(book) ==
    LET book_key == from_book(book) IN
    /\ IF book_key \in DOMAIN index
       THEN /\ heap[index[book_key]].qty < MaxCount
            /\ heap[index[book_key]].available_qty < MaxCount
            /\ heap' = [heap EXCEPT ![index[book_key]] = [inc(@) EXCEPT !.book = book]]
            /\ UNCHANGED <<library_books, index>>
       ELSE /\ Len(library_books) < MaxBooks
            /\ heap' = Append(heap, LibraryBook(book, 1, 1))
            /\ library_books' = Append(library_books, Len(heap) + 1)
            /\ index' = [k \in DOMAIN index \cup {book_key} |->
                            IF k = book_key THEN Len(heap) + 1 ELSE index[k]]
    /\ iters' = Touch(iters)
    /\ call' = Call("add_book", book, 0)
    /\ ret' = RetNone
    /\ prev' = heap
    /\ lent' = IF from_book(book) \in DOMAIN index THEN lent ELSE Append(lent, 0)

\* add_book that moves the record of a book it knows to the end of the list
add_book_move_to_end(book) ==
    LET book_key == from_book(book) IN
    /\ IF book_key \in DOMAIN index
       THEN /\ heap[index[book_key]].qty < MaxCount
            /\ heap[index[book_key]].available_qty < MaxCount
            /\ heap' = [heap EXCEPT ![index[book_key]] = inc(@)]
            /\ library_books' =
                  Append(SelectSeq(library_books, LAMBDA x : x # index[book_key]),
                         index[book_key])
            /\ UNCHANGED index
       ELSE /\ Len(library_books) < MaxBooks
            /\ heap' = Append(heap, LibraryBook(book, 1, 1))
            /\ library_books' = Append(library_books, Len(heap) + 1)
            /\ index' = [k \in DOMAIN index \cup {book_key} |->
                            IF k = book_key THEN Len(heap) + 1 ELSE index[k]]
    /\ iters' = Touch(iters)
    /\ call' = Call("add_book", book, 0)
    /\ ret' = RetNone
    /\ prev' = heap
    /\ lent' = IF from_book(book) \in DOMAIN index THEN lent ELSE Append(lent, 0)

add_book(book) ==
    LET book_key == from_book(book) IN
    /\ IF book_key \in DOMAIN index
       THEN /\ heap[index[book_key]].qty < MaxCount
            /\ heap[index[book_key]].available_qty < MaxCount
            /\ heap' = [heap EXCEPT ![index[book_key]] = inc(@)]
            /\ UNCHANGED <<library_books, index>>
       ELSE /\ Len(library_books) < MaxBooks
            /\ heap' = Append(heap, LibraryBook(book, 1, 1))
            /\ library_books' = Append(library_books, Len(heap) + 1)
            /\ index' = [k \in DOMAIN index \cup {book_key} |->
                            IF k = book_key THEN Len(heap) + 1 ELSE index[k]]
    /\ iters' = Touch(iters)
    /\ call' = Call("add_book", book, 0)
    /\ ret' = RetNone
    /\ prev' = heap
    /\ lent' = IF from_book(book) \in DOMAIN index THEN lent ELSE Append(lent, 0)

get_book(title, author) ==
    /\ ret' = IF BookKey(title, author) \in DOMAIN index
              THEN RetLibraryBook(index[BookKey(title, author)])
              ELSE RetNone
    /\ call' = Call("get_book", Book(title, author, 0, 0), 0)
    /\ prev' = heap
    /\ UNCHANGED lent
    /\ UNCHANGED <<heap, library_books, index, iters>>

\* checkout without the test of available_qty == 0
checkout_without_test(title, author) ==
    /\ IF BookKey(title, author) \notin DOMAIN index
       THEN /\ ret' = RetNone
            /\ UNCHANGED <<heap, iters>>
       ELSE LET lb == index[BookKey(title, author)] IN
            /\ heap' = [heap EXCEPT ![lb].available_qty = @ - 1]
            /\ ret' = RetBook(heap[lb].book)
            /\ iters' = Touch(iters)
    /\ call' = Call("checkout", Book(title, author, 0, 0), 0)
    /\ prev' = heap
    /\ lent' = IF ret'.kind = "Book"
               THEN [lent EXCEPT ![index[BookKey(title, author)]] = @ + 1]
               ELSE lent
    /\ UNCHANGED <<library_books, index>>

\* checkout that subscripts the index instead of calling get
checkout_subscript(title, author) ==
    /\ IF BookKey(title, author) \notin DOMAIN index
       THEN /\ ret' = RetKeyError
            /\ UNCHANGED <<heap, iters>>
       ELSE LET lb == index[BookKey(title, author)] IN
            IF heap[lb].available_qty = 0
            THEN /\ ret' = RetNone
                 /\ UNCHANGED <<heap, iters>>
            ELSE /\ heap' = [heap EXCEPT ![lb].available_qty = @ - 1]
                 /\ ret' = RetBook(heap[lb].book)
                 /\ iters' = Touch(iters)
    /\ call' = Call("checkout", Book(title, author, 0, 0), 0)
    /\ prev' = heap
    /\ lent' = IF ret'.kind = "Book"
               THEN [lent EXCEPT ![index[BookKey(title, author)]] = @ + 1]
               ELSE lent
    /\ UNCHANGED <<library_books, index>>

checkout(title, author) ==
    /\ IF BookKey(title, author) \notin DOMAIN index
       THEN /\ ret' = RetNone
            /\ UNCHANGED <<heap, iters>>
       ELSE LET lb == index[BookKey(title, author)] IN
            IF heap[lb].available_qty = 0
            THEN /\ ret' = RetNone
                 /\ UNCHANGED <<heap, iters>>
            ELSE /\ heap' = [heap EXCEPT ![lb].available_qty = @ - 1]
                 /\ ret' = RetBook(heap[lb].book)
                 /\ iters' = Touch(iters)
    /\ call' = Call("checkout", Book(title, author, 0, 0), 0)
    /\ prev' = heap
    /\ lent' = IF ret'.kind = "Book"
               THEN [lent EXCEPT ![index[BookKey(title, author)]] = @ + 1]
               ELSE lent
    /\ UNCHANGED <<library_books, index>>

\* return_book that ignores a book it does not know
return_book_silent(book) ==
    /\ IF BookKey(book.title, book.author) \notin DOMAIN index
       THEN /\ ret' = RetNone
            /\ UNCHANGED <<heap, iters>>
       ELSE LET lb == index[BookKey(book.title, book.author)] IN
            /\ heap[lb].available_qty < MaxCount
            /\ heap' = [heap EXCEPT ![lb].available_qty = @ + 1]
            /\ ret' = RetNone
            /\ iters' = Touch(iters)
    /\ call' = Call("return_book", book, 0)
    /\ prev' = heap
    /\ lent' = IF BookKey(book.title, book.author) \in DOMAIN index
               THEN [lent EXCEPT ![index[BookKey(book.title, book.author)]] = @ - 1]
               ELSE lent
    /\ UNCHANGED <<library_books, index>>

\* return_book that calls inc, as add_book does
return_book_inc(book) ==
    /\ IF BookKey(book.title, book.author) \notin DOMAIN index
       THEN /\ ret' = RetKeyError
            /\ UNCHANGED <<heap, iters>>
       ELSE LET lb == index[BookKey(book.title, book.author)] IN
            /\ heap[lb].available_qty < MaxCount
            /\ heap' = [heap EXCEPT ![lb] = inc(@)]
            /\ ret' = RetNone
            /\ iters' = Touch(iters)
    /\ call' = Call("return_book", book, 0)
    /\ prev' = heap
    /\ lent' = IF BookKey(book.title, book.author) \in DOMAIN index
               THEN [lent EXCEPT ![index[BookKey(book.title, book.author)]] = @ - 1]
               ELSE lent
    /\ UNCHANGED <<library_books, index>>

\* return_book that stops at qty
return_book_capped(book) ==
    /\ IF BookKey(book.title, book.author) \notin DOMAIN index
       THEN /\ ret' = RetKeyError
            /\ UNCHANGED <<heap, iters>>
       ELSE LET lb == index[BookKey(book.title, book.author)] IN
            /\ heap[lb].available_qty < MaxCount
            /\ heap' = [heap EXCEPT ![lb].available_qty =
                            IF @ < heap[lb].qty THEN @ + 1 ELSE @]
            /\ ret' = RetNone
            /\ iters' = Touch(iters)
    /\ call' = Call("return_book", book, 0)
    /\ prev' = heap
    /\ lent' = IF BookKey(book.title, book.author) \in DOMAIN index
               THEN [lent EXCEPT ![index[BookKey(book.title, book.author)]] = @ - 1]
               ELSE lent
    /\ UNCHANGED <<library_books, index>>

return_book(book) ==
    /\ IF BookKey(book.title, book.author) \notin DOMAIN index
       THEN /\ ret' = RetKeyError
            /\ UNCHANGED <<heap, iters>>
       ELSE LET lb == index[BookKey(book.title, book.author)] IN
            /\ heap[lb].available_qty < MaxCount
            /\ heap' = [heap EXCEPT ![lb].available_qty = @ + 1]
            /\ ret' = RetNone
            /\ iters' = Touch(iters)
    /\ call' = Call("return_book", book, 0)
    /\ prev' = heap
    /\ lent' = IF BookKey(book.title, book.author) \in DOMAIN index
               THEN [lent EXCEPT ![index[BookKey(book.title, book.author)]] = @ - 1]
               ELSE lent
    /\ UNCHANGED <<library_books, index>>

\* ---- LibraryBookIter ----
\* book_iter = iter(library.library_books) is (it_index, it_done): the number of
\* list elements already taken, and whether the list iterator has run out.
\* current_book = 0 is None.  emitted and mutated record what the iterator
\* has returned so far and whether the library has changed since __init__.
LibraryBookIter ==
    [it_index |-> 0, it_done |-> FALSE, current_book |-> 0, qty_counter |-> 1,
     emitted |-> << >>, mutated |-> FALSE]

\* next(self.book_iter) has an element to give
HasNext(it) == ~it.it_done /\ it.it_index < Len(library_books)

\* __next__ without its while loop
SkipNothing(i) == i

\* __next__ with an if in the place of its while
SkipOne(i) ==
    IF i <= Len(library_books) /\ heap[library_books[i]].available_qty = 0
    THEN i + 1
    ELSE i

\* the while loop of __next__: the first position from i on whose book has
\* availability, or Len(library_books) + 1 when there is none
RECURSIVE SkipUnavailable(_)
SkipUnavailable(i) ==
    IF i > Len(library_books) THEN i
    ELSE IF heap[library_books[i]].available_qty = 0 THEN SkipUnavailable(i + 1)
    ELSE i

Emit(it, r) ==
    [it |-> [it EXCEPT !.emitted = Append(@, r)], ret |-> RetLibraryBook(r)]

Stop(it) == [it |-> [it EXCEPT !.it_done = TRUE], ret |-> RetStopIteration]

\* __next__ with >= in the place of > in its test of available_qty
NextBook_ge(it) ==
    IF heap[it.current_book].available_qty >= it.qty_counter
    THEN Emit([it EXCEPT !.qty_counter = @ + 1], it.current_book)
    ELSE IF ~HasNext(it) THEN Stop(it)
    ELSE LET j == SkipUnavailable(it.it_index + 1) IN
         IF j <= Len(library_books)
         THEN Emit([it EXCEPT !.current_book = library_books[j],
                              !.it_index = j,
                              !.qty_counter = 1], library_books[j])
         ELSE Stop([it EXCEPT !.current_book = library_books[Len(library_books)],
                              !.it_index = Len(library_books)])

\* __next__ that sets qty_counter to 0 when it moves to the next book
NextBook_counter_zero(it) ==
    IF heap[it.current_book].available_qty > it.qty_counter
    THEN Emit([it EXCEPT !.qty_counter = @ + 1], it.current_book)
    ELSE IF ~HasNext(it) THEN Stop(it)
    ELSE LET j == SkipUnavailable(it.it_index + 1) IN
         IF j <= Len(library_books)
         THEN Emit([it EXCEPT !.current_book = library_books[j],
                              !.it_index = j,
                              !.qty_counter = 0], library_books[j])
         ELSE Stop([it EXCEPT !.current_book = library_books[Len(library_books)],
                              !.it_index = Len(library_books)])

\* the part of __next__ after the special case of the initial iteration
NextBook(it) ==
    IF heap[it.current_book].available_qty > it.qty_counter
    THEN Emit([it EXCEPT !.qty_counter = @ + 1], it.current_book)
    ELSE IF ~HasNext(it) THEN Stop(it)
    ELSE LET j == SkipUnavailable(it.it_index + 1) IN
         IF j <= Len(library_books)
         THEN Emit([it EXCEPT !.current_book = library_books[j],
                              !.it_index = j,
                              !.qty_counter = 1], library_books[j])
         ELSE Stop([it EXCEPT !.current_book = library_books[Len(library_books)],
                              !.it_index = Len(library_books)])

\* __next__ that does not reset qty_counter in the initial iteration
Advance_no_reset(it) ==
    IF it.current_book = 0
    THEN IF ~HasNext(it) THEN Stop(it)
         ELSE NextBook([it EXCEPT !.current_book = library_books[it.it_index + 1],
                                  !.it_index = @ + 1])
    ELSE NextBook(it)

\* __next__: the iterator after the call and what the call returned or raised
Advance(it) ==
    IF it.current_book = 0
    THEN IF ~HasNext(it) THEN Stop(it)
         ELSE NextBook([it EXCEPT !.current_book = library_books[it.it_index + 1],
                                  !.it_index = @ + 1,
                                  !.qty_counter = 0])
    ELSE NextBook(it)

\* __next__ that takes the copy it returns out of the library
LibraryBookIter_next_consume(i) ==
    /\ iters' = [iters EXCEPT ![i] = Advance(iters[i]).it]
    /\ ret' = Advance(iters[i]).ret
    /\ call' = Call("__next__", NoBook, i)
    /\ prev' = heap
    /\ UNCHANGED lent
    /\ heap' = IF Advance(iters[i]).ret.kind = "LibraryBook"
               THEN [heap EXCEPT ![Advance(iters[i]).ret.ref].available_qty = @ - 1]
               ELSE heap
    /\ UNCHANGED <<library_books, index>>

LibraryBookIter_next(i) ==
    /\ iters' = [iters EXCEPT ![i] = Advance(iters[i]).it]
    /\ ret' = Advance(iters[i]).ret
    /\ call' = Call("__next__", NoBook, i)
    /\ prev' = heap
    /\ UNCHANGED lent
    /\ UNCHANGED <<heap, library_books, index>>

\* __iter__ that hands out the state of an iterator made before
Library_iter_shared(i) ==
    /\ iters' = [j \in 1..(IF i > Len(iters) THEN i ELSE Len(iters)) |->
                    IF j = i
                    THEN (IF Len(iters) >= 1 /\ i # 1 THEN iters[1] ELSE LibraryBookIter)
                    ELSE iters[j]]
    /\ ret' = RetLibraryBookIter(i)
    /\ call' = Call("__iter__", NoBook, i)
    /\ prev' = heap
    /\ UNCHANGED lent
    /\ UNCHANGED <<heap, library_books, index>>

\* Library.__iter__, its result bound to the client's i-th variable
Library_iter(i) ==
    /\ iters' = [j \in 1..(IF i > Len(iters) THEN i ELSE Len(iters)) |->
                    IF j = i THEN LibraryBookIter ELSE iters[j]]
    /\ ret' = RetLibraryBookIter(i)
    /\ call' = Call("__iter__", NoBook, i)
    /\ prev' = heap
    /\ UNCHANGED lent
    /\ UNCHANGED <<heap, library_books, index>>

\* ---- the library alone: every book, no iterator ----
Next ==
    \/ \E b \in Books : add_book(b)
    \/ \E t \in Titles, a \in Authors : get_book(t, a)
    \/ \E t \in Titles, a \in Authors : checkout(t, a)
    \/ \E b \in Books : return_book(b)

Spec == Init /\ [][Next]_vars

\* ---- the library and its iterators: three books of different (title, author) ----
IterBooks == {b \in Books : b.genere = 1 /\ b.n_pages = 1 /\ (b.title = 1 \/ b.author = 1)}

NextIter ==
    \/ \E b \in IterBooks : add_book(b)
    \/ \E b \in IterBooks : checkout(b.title, b.author)
    \/ \E b \in IterBooks : return_book(b)
    \/ \E i \in 1..MaxIters : i <= Len(iters) + 1 /\ Library_iter(i)
    \/ \E i \in 1..Len(iters) : LibraryBookIter_next(i)

SpecIter == Init /\ [][NextIter]_vars

\* ---- the client that fills the library and then only enumerates it ----
NextOf(i) == i \in DOMAIN iters /\ LibraryBookIter_next(i)

NextQuiet ==
    \/ \E b \in IterBooks : Len(iters) = 0 /\ add_book(b)
    \/ \E b \in IterBooks : Len(iters) = 0 /\ checkout(b.title, b.author)
    \/ \E b \in IterBooks : Len(iters) = 0 /\ return_book(b)
    \/ \E i \in 1..MaxQuietIters :
          /\ i <= Len(iters) + 1
          /\ i \in DOMAIN iters => iters[i].it_done
          /\ Library_iter(i)
    \/ \E i \in 1..MaxQuietIters : NextOf(i)

\* the client keeps calling next on every iterator it holds
SpecQuiet ==
    Init /\ [][NextQuiet]_vars /\ \A i \in 1..MaxQuietIters : WF_vars(NextOf(i))

\* ---- identities and records, as the properties below read them ----
\* the identity of a book: its title and author
Identity(b) == <<b.title, b.author>>

\* a book of identity k has been added: h holds a record of it
Tracked(h, k) == \E r \in DOMAIN h : Identity(h[r].book) = k

\* the record of identity k in h
RecordOf(h, k) == CHOOSE r \in DOMAIN h : Identity(h[r].book) = k

\* the records of h other than r are the same in h2
OthersSame(h, h2, r) ==
    /\ DOMAIN h \subseteq DOMAIN h2
    /\ \A q \in DOMAIN h : q # r => h2[q] = h[q]

\* C2: in every reachable state every record has
\* 0 <= available_qty <= qty.
C2_AvailableWithinTotal ==
    \A r \in DOMAIN heap :
        0 <= heap[r].available_qty /\ heap[r].available_qty <= heap[r].qty

\* C3: the list and the index are in bijection: every record of the list is
\* the value of exactly one index key, the (title, author) of its book; every
\* index value is a record of the list; no two records of the list are the
\* same object or share an identity.
C3_ListIndexBijection ==
    /\ \A p \in DOMAIN library_books :
          /\ library_books[p] \in DOMAIN heap
          /\ {k \in DOMAIN index : index[k] = library_books[p]}
                = {Identity(heap[library_books[p]].book)}
    /\ \A k \in DOMAIN index : \E p \in DOMAIN library_books : library_books[p] = index[k]
    /\ \A p, q \in DOMAIN library_books :
          p # q => /\ library_books[p] # library_books[q]
                   /\ Identity(heap[library_books[p]].book)
                         # Identity(heap[library_books[q]].book)

\* a list of two records, one of them added twice
C3_Witness ==
    /\ Len(library_books) >= 2
    /\ \E k \in DOMAIN index : heap[index[k]].qty = 2

\* C4: add_book returns normally and does one of two things.  Identity not in
\* the index: one record (book, 1, 1) is appended to the list and registered
\* under the identity.  Identity in the index: qty and available_qty of its
\* record grow by 1, list and index stay.  Every other record stays.
C4_AddStep ==
    call'.op = "add_book" =>
        LET k == Identity(call'.arg) IN
        /\ ret' = RetNone
        /\ IF k \notin DOMAIN index
           THEN /\ Len(heap') = Len(heap) + 1
                /\ heap'[Len(heap')] = [book |-> call'.arg, qty |-> 1, available_qty |-> 1]
                /\ library_books' = Append(library_books, Len(heap'))
                /\ DOMAIN index' = DOMAIN index \cup {k}
                /\ index'[k] = Len(heap')
                /\ \A j \in DOMAIN index : index'[j] = index[j]
                /\ OthersSame(heap, heap', 0)
           ELSE /\ Len(heap') = Len(heap)
                /\ heap'[index[k]].qty = heap[index[k]].qty + 1
                /\ heap'[index[k]].available_qty = heap[index[k]].available_qty + 1
                /\ heap'[index[k]].book = heap[index[k]].book
                /\ library_books' = library_books
                /\ index' = index
                /\ OthersSame(heap, heap', index[k])

C4_Add == [][C4_AddStep]_vars

\* a second copy of the second book of the library has just been added
C4_Witness ==
    /\ call.op = "add_book"
    /\ Len(library_books) >= 2
    /\ Tracked(prev, Identity(call.arg))
    /\ heap[RecordOf(heap, Identity(call.arg))].qty = 2

\* C5: identity is (title, author) only: an add creates a record if and only if
\* no record of the same (title, author) exists; the second of two adds to an
\* empty library leaves one record with qty = 2 and available_qty = 2 when the
\* two books agree on (title, author), whatever their genere and n_pages, and
\* two records otherwise.
C5_IdentityIsTitleAuthor ==
    call.op = "add_book" =>
        /\ Len(heap) = Len(prev) + 1 <=> ~Tracked(prev, Identity(call.arg))
        /\ Len(library_books) = Len(heap)
        /\ (Len(prev) = 1 /\ prev[1].qty = 1 /\ prev[1].available_qty = 1) =>
              IF Identity(call.arg) = Identity(prev[1].book)
              THEN /\ Len(library_books) = 1
                   /\ heap[library_books[1]].qty = 2
                   /\ heap[library_books[1]].available_qty = 2
              ELSE Len(library_books) = 2

\* the second add was of a book with the title and author of the first and
\* another genere or n_pages
C5_Witness ==
    /\ call.op = "add_book"
    /\ Len(library_books) = 1
    /\ heap[library_books[1]].qty = 2
    /\ call.arg # heap[library_books[1]].book

\* C6: checkout of a tracked identity: with available_qty = 0 it returns None
\* and changes nothing; otherwise available_qty drops by 1, the book of the
\* record is returned, and qty, the other records, the list and the index
\* stay.  available_qty never drops below 0, and a checkout right after the
\* checkout of the only available copy returns None.
C6_CheckoutStep ==
    (call'.op = "checkout" /\ Tracked(heap, Identity(call'.arg))) =>
        LET r == RecordOf(heap, Identity(call'.arg)) IN
        /\ library_books' = library_books
        /\ index' = index
        /\ IF heap[r].available_qty = 0
           THEN ret' = RetNone /\ heap' = heap
           ELSE /\ ret' = RetBook(heap[r].book)
                /\ heap'[r].available_qty = heap[r].available_qty - 1
                /\ heap'[r].available_qty >= 0
                /\ heap'[r].qty = heap[r].qty
                /\ heap'[r].book = heap[r].book
                /\ Len(heap') = Len(heap)
                /\ OthersSame(heap, heap', r)
        /\ (/\ call.op = "checkout" /\ call.arg = call'.arg
            /\ ret.kind = "Book" /\ prev[r].available_qty = 1) => ret' = RetNone

C6_Checkout == [][C6_CheckoutStep]_vars

\* the checkout after the checkout of the only available copy has returned None
C6_Witness ==
    /\ call.op = "checkout"
    /\ ret = RetNone
    /\ Tracked(heap, Identity(call.arg))
    /\ heap[RecordOf(heap, Identity(call.arg))].available_qty = 0
    /\ heap[RecordOf(heap, Identity(call.arg))].qty = 1

\* C7: get_book and checkout of an identity that was never added return None
\* and leave the list, the index and every record as they were.
C7_UnknownStep ==
    (call'.op \in {"get_book", "checkout"} /\ ~Tracked(heap, Identity(call'.arg))) =>
        /\ ret' = RetNone
        /\ heap' = heap
        /\ library_books' = library_books
        /\ index' = index

C7_Unknown == [][C7_UnknownStep]_vars

\* a checkout of an identity that was never added, on a library that has books
C7_Witness ==
    /\ call.op = "checkout"
    /\ ~Tracked(heap, Identity(call.arg))
    /\ ret = RetNone
    /\ Len(library_books) >= 1

\* C8: return_book of a book whose identity was never added ends in an error
\* and leaves the list, the index and every record as they were.
C8_ReturnUnknownStep ==
    (call'.op = "return_book" /\ ~Tracked(heap, Identity(call'.arg))) =>
        /\ ret' = RetKeyError
        /\ heap' = heap
        /\ library_books' = library_books
        /\ index' = index

C8_ReturnUnknown == [][C8_ReturnUnknownStep]_vars

\* a return of a book that was never added, on a library that has books
C8_Witness ==
    /\ call.op = "return_book"
    /\ ~Tracked(heap, Identity(call.arg))
    /\ ret = RetKeyError
    /\ Len(library_books) >= 1

\* C9: on a tracked identity with available_qty >= 1 checkout succeeds; the
\* return of the book a checkout has just returned succeeds and restores every
\* record to what it was before that checkout; the checkout after a successful
\* return succeeds; and after a checkout that failed on an exhausted record,
\* the return of a book of that identity succeeds and leaves a copy available.
C9_RoundTripStep ==
    /\ (/\ call'.op = "checkout"
        /\ Tracked(heap, Identity(call'.arg))
        /\ heap[RecordOf(heap, Identity(call'.arg))].available_qty >= 1)
          => ret'.kind = "Book" /\ Identity(ret'.book) = Identity(call'.arg)
    /\ (/\ call.op = "checkout" /\ ret.kind = "Book"
        /\ call'.op = "return_book" /\ call'.arg = ret.book)
          => ret' = RetNone /\ heap' = prev
    /\ (/\ call.op = "return_book" /\ ret = RetNone
        /\ call'.op = "checkout" /\ Identity(call'.arg) = Identity(call.arg))
          => ret'.kind = "Book"
    /\ (/\ call.op = "checkout" /\ ret = RetNone
        /\ Tracked(heap, Identity(call.arg))
        /\ call'.op = "return_book" /\ Identity(call'.arg) = Identity(call.arg))
          => /\ ret' = RetNone
             /\ heap'[RecordOf(heap, Identity(call.arg))].available_qty = 1

C9_RoundTrip == [][C9_RoundTripStep]_vars

\* the only copy of a book, checked out before, has just been returned
C9_Witness ==
    /\ call.op = "return_book"
    /\ ret = RetNone
    /\ \E r \in DOMAIN heap :
          /\ Identity(heap[r].book) = Identity(call.arg)
          /\ heap[r].qty = 1
          /\ prev[r].available_qty = 0
          /\ heap[r].available_qty = 1

\* ---- enumeration ----
RECURSIVE Replicate(_, _)
Replicate(x, n) == IF n <= 0 THEN << >> ELSE <<x>> \o Replicate(x, n - 1)

\* the records of h from r on in first-add order, each as often as it has
\* available copies
RECURSIVE ExpansionFrom(_, _)
ExpansionFrom(h, r) ==
    IF r > Len(h) THEN << >>
    ELSE Replicate(r, h[r].available_qty) \o ExpansionFrom(h, r + 1)

RECURSIVE AvailableFrom(_, _)
AvailableFrom(h, r) ==
    IF r > Len(h) THEN 0 ELSE h[r].available_qty + AvailableFrom(h, r + 1)

IsPrefix(s, t) == Len(s) <= Len(t) /\ SubSeq(t, 1, Len(s)) = s

\* C1: an iterator advanced with no change of the library since its creation
\* has returned a prefix of the expansion (the records in first-add order, each
\* available_qty times in a row, none with available_qty = 0), and the whole
\* expansion once it has raised StopIteration.
C1_EnumerationIsExpansion ==
    \A i \in DOMAIN iters :
        ~iters[i].mutated =>
            /\ IsPrefix(iters[i].emitted, ExpansionFrom(heap, 1))
            /\ iters[i].it_done => iters[i].emitted = ExpansionFrom(heap, 1)

\* an exhausted iterator over three records: one with two copies available,
\* one with none, one with one
C1_Witness ==
    \E i \in DOMAIN iters :
        /\ ~iters[i].mutated
        /\ iters[i].it_done
        /\ Len(iters[i].emitted) = 3
        /\ Len(heap) = 3
        /\ \E r \in DOMAIN heap : heap[r].available_qty = 0
        /\ \E r \in DOMAIN heap : heap[r].available_qty = 2

\* C10: when the library does not change after the creation of an iterator,
\* the iterator never returns more values than there are available copies, it
\* has returned exactly that many when it raises StopIteration, and repeated
\* calls of next lead to StopIteration.
C10_Bounded ==
    \A i \in DOMAIN iters :
        ~iters[i].mutated =>
            /\ Len(iters[i].emitted) <= AvailableFrom(heap, 1)
            /\ iters[i].it_done => Len(iters[i].emitted) = AvailableFrom(heap, 1)

C10_Terminates ==
    /\ []C10_Bounded
    /\ \A i \in 1..MaxQuietIters :
          (i \in DOMAIN iters) ~> (i \in DOMAIN iters /\ iters[i].it_done)

\* StopIteration after four values
C10_Witness ==
    /\ call.op = "__next__"
    /\ ret = RetStopIteration
    /\ ~iters[call.it].mutated
    /\ Len(iters[call.it].emitted) = 4
    /\ AvailableFrom(heap, 1) = 4

\* C11: with no change of the library since the creation of the iterator, no
\* record with available_qty = 0 is ever returned, wherever it stands in the
\* list; and when no record has an available copy (an empty library, or zero
\* records only) a call of next raises StopIteration with nothing returned.
C11_UnavailableNeverEmitted ==
    /\ \A i \in DOMAIN iters :
          ~iters[i].mutated =>
              \A p \in DOMAIN iters[i].emitted :
                  heap[iters[i].emitted[p]].available_qty > 0
    /\ (/\ call.op = "__next__"
        /\ ~iters[call.it].mutated
        /\ AvailableFrom(heap, 1) = 0)
          => ret = RetStopIteration /\ iters[call.it].emitted = << >>

\* an exhausted iterator over two records in a row with no copy available and
\* a last one with a copy
C11_Witness ==
    \E i \in DOMAIN iters :
        /\ ~iters[i].mutated
        /\ iters[i].it_done
        /\ Len(heap) = 3
        /\ heap[library_books[1]].available_qty = 0
        /\ heap[library_books[2]].available_qty = 0
        /\ heap[library_books[3]].available_qty >= 1
        /\ Len(iters[i].emitted) >= 1

\* C12: return_book of a book of a tracked identity returns normally and adds
\* exactly 1 to available_qty of its record, also when available_qty equals
\* qty already; qty, the book, the other records, the list and the index stay.
C12_ReturnStep ==
    (call'.op = "return_book" /\ Tracked(heap, Identity(call'.arg))) =>
        LET r == RecordOf(heap, Identity(call'.arg)) IN
        /\ ret' = RetNone
        /\ Len(heap') = Len(heap)
        /\ heap'[r].available_qty = heap[r].available_qty + 1
        /\ heap'[r].qty = heap[r].qty
        /\ heap'[r].book = heap[r].book
        /\ OthersSame(heap, heap', r)
        /\ library_books' = library_books
        /\ index' = index

C13_ExhaustionStep ==
    \A i \in DOMAIN iters :
        (iters[i].it_done /\ call'.op = "__next__" /\ call'.it = i) =>
            /\ ret' = RetStopIteration
            /\ iters'[i].emitted = iters[i].emitted

C13_ExhaustionIsTerminal == [][C13_ExhaustionStep]_vars

\* C14: iterators are independent.  __iter__ returns an iterator that stands
\* before the first record with nothing returned; a call of next on one
\* iterator leaves every other iterator as it was; and over a library that
\* does not change, each iterator, however the calls are interleaved and also
\* when it was made after another one was exhausted, returns a prefix of the
\* expansion and the whole of it at StopIteration.
C14_FreshAndSeparateStep ==
    /\ call'.op = "__iter__" =>
          /\ iters'[call'.it].it_index = 0
          /\ iters'[call'.it].current_book = 0
          /\ iters'[call'.it].emitted = << >>
          /\ ~iters'[call'.it].it_done
          /\ \A j \in DOMAIN iters : j # call'.it => iters'[j] = iters[j]
    /\ call'.op = "__next__" =>
          \A j \in DOMAIN iters : j # call'.it => iters'[j] = iters[j]

C14_EachYieldsExpansion ==
    \A i \in DOMAIN iters :
        /\ Len(iters[i].emitted) <= Len(ExpansionFrom(heap, 1))
        /\ \A p \in DOMAIN iters[i].emitted :
              iters[i].emitted[p] = ExpansionFrom(heap, 1)[p]
        /\ iters[i].it_done => Len(iters[i].emitted) = Len(ExpansionFrom(heap, 1))

C14_IndependentIterators ==
    /\ []C14_EachYieldsExpansion
    /\ [][C14_FreshAndSeparateStep]_vars

\* two iterators over three available copies: the first exhausted, the second
\* one value short of it
C14_Witness ==
    /\ Len(iters) = 2
    /\ Len(ExpansionFrom(heap, 1)) = 3
    /\ iters[1].it_done /\ Len(iters[1].emitted) = 3
    /\ ~iters[2].it_done /\ Len(iters[2].emitted) = 2
    /\ call.op = "__next__" /\ call.it = 2

\* C15: records are never destroyed or reordered: every record ever created
\* is on the list, the list is in the order of creation (a second add of a
\* book does not move its record), a call adds at most one record, at the end,
\* and only add_book does; qty of a record never decreases and only add_book
\* changes it.
C15_NeverDestroyedNorReordered ==
    /\ Len(library_books) = Len(heap)
    /\ \A p, q \in DOMAIN library_books :
          p < q => library_books[p] < library_books[q]
    /\ Len(prev) <= Len(heap)
    /\ Len(heap) <= Len(prev) + 1
    /\ Len(heap) > Len(prev) => call.op = "add_book"
    /\ \A r \in DOMAIN prev :
          /\ Identity(heap[r].book) = Identity(prev[r].book)
          /\ heap[r].qty >= prev[r].qty
          /\ heap[r].qty # prev[r].qty => call.op = "add_book"

\* the first of two books has just been added a second time
C15_Witness ==
    /\ call.op = "add_book"
    /\ Len(library_books) = 2
    /\ Len(prev) = 2
    /\ Identity(call.arg) = Identity(heap[library_books[1]].book)
    /\ heap[library_books[1]].qty = 2

\* C16: whatever add_book, checkout and return_book do between the calls of
\* next, a record that next returns has available_qty >= 1 when it is returned.
C16_EmittedIsAvailable ==
    (call.op = "__next__" /\ ret.kind = "LibraryBook") =>
        /\ ret.ref \in DOMAIN heap
        /\ heap[ret.ref].available_qty >= 1

\* next has returned a second record to an iterator in flight that has seen
\* the library change
C16_Witness ==
    /\ call.op = "__next__"
    /\ ret.kind = "LibraryBook"
    /\ iters[call.it].mutated
    /\ ~iters[call.it].it_done
    /\ Len(iters[call.it].emitted) >= 2

\* C17: available_qty of a record is its qty less the copies that are out
\* (successful checkouts minus returns), and while the returns of a book do
\* not exceed its successful checkouts, 0 <= available_qty <= qty.
C17_AvailableIsTotalLessLent ==
    /\ Len(lent) = Len(heap)
    /\ \A r \in DOMAIN heap :
          /\ heap[r].available_qty = heap[r].qty - lent[r]
          /\ lent[r] >= 0 =>
                (0 <= heap[r].available_qty /\ heap[r].available_qty <= heap[r].qty)

\* one of two copies checked out has just been returned, the other is out
C17_Witness ==
    /\ call.op = "return_book"
    /\ ret = RetNone
    /\ \E r \in DOMAIN heap :
          /\ Identity(heap[r].book) = Identity(call.arg)
          /\ heap[r].qty = 2
          /\ lent[r] = 1
          /\ heap[r].available_qty = 1

\* C18: __iter__ and __next__, whether next returns a record or raises
\* StopIteration, leave the list, the index and every record as they were.
C18_IterationStep ==
    call'.op \in {"__iter__", "__next__"} =>
        /\ heap' = heap
        /\ library_books' = library_books
        /\ index' = index

C18_IterationReadsOnly == [][C18_IterationStep]_vars

\* next has returned the second copy of a record and the record still has
\* its two copies
C18_Witness ==
    /\ call.op = "__next__"
    /\ ret.kind = "LibraryBook"
    /\ iters[call.it].qty_counter = 2
    /\ heap[ret.ref].available_qty = 2
    /\ Len(iters[call.it].emitted) = 2

\* C19: the book of a record is the book of the add that created the record
\* and is never replaced: an add of another book of the same (title, author)
\* leaves it, get_book returns the record that holds it and checkout returns it.
C19_RepresentativeIsFirstAdded ==
    /\ \A r \in DOMAIN prev : heap[r].book = prev[r].book
    /\ (call.op = "add_book" /\ ~Tracked(prev, Identity(call.arg))) =>
          heap[Len(heap)].book = call.arg
    /\ (call.op = "checkout" /\ ret.kind = "Book") =>
          /\ Tracked(prev, Identity(call.arg))
          /\ ret.book = prev[RecordOf(prev, Identity(call.arg))].book
    /\ (call.op = "get_book" /\ Tracked(prev, Identity(call.arg))) =>
          /\ ret.kind = "LibraryBook"
          /\ ret.ref = RecordOf(prev, Identity(call.arg))
          /\ heap[ret.ref].book = prev[ret.ref].book

\* the second of two records has just been added again, with another genere
C19_Witness ==
    /\ call.op = "add_book"
    /\ Len(prev) = 2
    /\ Identity(call.arg) = Identity(prev[2].book)
    /\ call.arg.genere # prev[2].book.genere
    /\ heap[2].book = prev[2].book
    /\ heap[2].qty = 2

\* how often r is in s
Count(s, r) == Cardinality({p \in DOMAIN s : s[p] = r})

\* C20: with no change of the library since the creation of the iterator,
\* after a call of next that returns a record, qty_counter is at least 1, at
\* most available_qty of current_book, and the number of times the iterator
\* has returned current_book so far; the record returned is current_book.
C20_CounterCountsEmissions ==
    (call.op = "__next__" /\ ret.kind = "LibraryBook" /\ ~iters[call.it].mutated) =>
        LET it == iters[call.it] IN
        /\ ret.ref = it.current_book
        /\ 1 <= it.qty_counter
        /\ it.qty_counter <= heap[it.current_book].available_qty
        /\ it.qty_counter = Count(it.emitted, it.current_book)

\* next has returned the second copy of the second record with copies
C20_Witness ==
    /\ call.op = "__next__"
    /\ ret.kind = "LibraryBook"
    /\ ~iters[call.it].mutated
    /\ iters[call.it].qty_counter = 2
    /\ iters[call.it].it_index >= 2
    /\ Len(iters[call.it].emitted) >= 3

====
